---- MODULE Spec2Model ----
(***************************************************************************)
(* The selector-driven TCPServer of tools/cookbook.py: one listening       *)
(* socket, the connection registry _message_queues, the single _handler    *)
(* attribute, and the event loop of run() with its three dispatch          *)
(* branches _accept, _read and _write.                                     *)
(*                                                                         *)
(* A state is an observation point: between two event dispatches of run(), *)
(* or outside run().  Every action is one whole call (a dispatch branch,   *)
(* close(), the entry of run(), one select()).  What the environment       *)
(* decides (which sockets are ready, what recv returns, whether a socket   *)
(* call or the handler raises, what verify_request answers) is an input    *)
(* of the action.                                                          *)
(***************************************************************************)
EXTENDS Naturals, Sequences, FiniteSets, TLC

\* Number of client sockets accept() ever returns.
MaxSock == 3
\* Number of calls of close().
MaxClose == 2
\* Number of chunks recv() ever returns, over all connections.
MaxRecv == 2
\* Number of candidates getaddrinfo() returns.
MaxCand == 3

\* The absent handler (self._handler = None).
None == 0
\* The listening socket object, self._socket.
_socket == 0
\* Client socket objects: every accept() returns a fresh one.
Sockets == 1..MaxSock

EVENT_READ == "EVENT_READ"
EVENT_WRITE == "EVENT_WRITE"

\* Chunks recv() can return; "ff" stands for bytes that are not valid UTF-8.
Utf8Chunks == {"hi"}
Chunks == Utf8Chunks \cup {"ff"}

Outcome == {"ok", "raise"}

VARIABLES
  pc,               \* "idle" (constructed), "running" (inside run), "exited"
  io_selector,      \* the selector of run(): registered file object -> events
  ready,            \* keys of the current select() result not yet dispatched
  _message_queues,  \* the registry: client socket -> queue of chunks
  _handler,         \* self._handler: None or the handler built for a socket
  handlers,         \* sockets for which a handler has been constructed
  verified,         \* what verify_request answered for each accepted socket
  sockState,        \* "unused", "open" or "closed" for each client socket
  shutdownCalls,    \* calls of request.shutdown(SHUT_WR) per client socket
  closeCalls,       \* calls of request.close() per client socket
  listener,         \* "open" or "closed": the listening socket
  listenerCloses,   \* calls of self._socket.close()
  nextSock,         \* the next socket object accept() returns
  last,             \* the call that has just completed
  received,         \* the chunks recv() returned, per client socket
  sent,             \* the data sendall() sent, per client socket
  teardown,         \* the steps of the teardown of each client socket
  construction,     \* the state of the constructor __init__
  retry             \* the state of a call of eintr_retry(func, *args)

vars == <<pc, io_selector, ready, _message_queues, _handler, handlers,
          verified, sockState, shutdownCalls, closeCalls, listener,
          listenerCloses, nextSock, last, received, sent, teardown,
          construction, retry>>

\* What only _read, _write, the constructor and eintr_retry change.
aux == <<received, sent, teardown, construction, retry>>

\* A map with no key: a selector with nothing registered, an empty registry.
EmptyMap == [x \in {} |-> {}]

Event(op, sock, res, h, herr, shut) ==
  [op |-> op, sock |-> sock, res |-> res, handler |-> h, herr |-> herr,
   shut |-> shut]

---------------------------------------------------------------------------
\* selectors: register, modify, unregister.
register(sel, fileobj, events) ==
  [x \in DOMAIN sel \cup {fileobj} |-> IF x = fileobj THEN events ELSE sel[x]]

modify_keep(sel, fileobj, events) == sel

modify(sel, fileobj, events) ==
  [x \in DOMAIN sel |-> IF x = fileobj THEN events ELSE sel[x]]

unregister_keep(sel, fileobj) == sel

unregister(sel, fileobj) ==
  [x \in DOMAIN sel \ {fileobj} |-> sel[x]]

\* self._message_queues[request] = queue.Queue()
new_queue(q, request) ==
  [x \in DOMAIN q \cup {request} |-> IF x = request THEN <<>> ELSE q[x]]

\* self._message_queues[request].put(data)
put(q, request, data) ==
  [q EXCEPT ![request] = Append(@, data)]

\* self._message_queues[request].get_nowait(), when the queue is not empty
get_nowait(q, request) ==
  [q EXCEPT ![request] = Tail(@)]

del_keep(q, request) == q

\* del self._message_queues[request]
del(q, request) ==
  [x \in DOMAIN q \ {request} |-> q[x]]

\* The test of the hook's answer v: if self.verify_request(request, addr)
admit_all(v) == TRUE

admit(v) == v

\* next_data.decode() raises UnicodeDecodeError on bytes that are not UTF-8.
decodes(data) == data \in Utf8Chunks

\* bytes.decode() of valid UTF-8: the str of those bytes.
decode(data) == <<"str", data>>

\* str.encode(): the UTF-8 bytes of a str.
encode(str) == str[2]

\* EchoRequestHandler.handle: return data.encode()
handle(data) == encode(data)

\* The chunks received so far on the sockets of S.
RECURSIVE TotalReceived(_)
TotalReceived(S) ==
  IF S = {} THEN 0
  ELSE LET s == CHOOSE x \in S : TRUE
       IN Len(received[s]) + TotalReceived(S \ {s})

\* The steps of _cleanup_request, _close_request included, in their order.
cleanup_order == <<"unregister", "shutdown", "close", "del">>

---------------------------------------------------------------------------
\* The constructor when it has returned: the first candidate was bound and
\* is the listening socket, the only socket the constructor left open.
Constructed ==
  [phase |-> "done", has_ipv6 |-> TRUE, res |-> <<"ok">>, i |-> 2,
   sock |-> 1, open |-> {1}, tried |-> <<1>>, broken |-> TRUE]

\* The fields of a server that serves nothing yet.
Fields ==
  /\ pc = "idle"
  /\ io_selector = EmptyMap
  /\ ready = {}
  /\ _message_queues = EmptyMap
  /\ _handler = None
  /\ handlers = {}
  /\ verified = [s \in Sockets |-> "none"]
  /\ sockState = [s \in Sockets |-> "unused"]
  /\ shutdownCalls = [s \in Sockets |-> 0]
  /\ closeCalls = [s \in Sockets |-> 0]
  /\ listener = "open"
  /\ listenerCloses = 0
  /\ nextSock = 1
  /\ last = Event("init", _socket, "ok", None, 0, "none")
  /\ received = [s \in Sockets |-> <<>>]
  /\ sent = [s \in Sockets |-> <<>>]
  /\ teardown = [s \in Sockets |-> <<>>]

\* No call of eintr_retry: nothing in the module calls it.
NotCalled == [func |-> <<>>, calls |-> 0, state |-> "idle", result |-> "none"]

Init ==
  /\ Fields
  /\ construction = Constructed
  /\ retry = NotCalled

\* run(), up to the first select(): a new selector with the listening socket
\* registered.  Registering a closed socket raises (its fileno is -1) and the
\* with statement closes the selector again.
run ==
  /\ pc # "running"
  /\ pc' = IF listener = "open" THEN "running" ELSE "exited"
  /\ io_selector' = IF listener = "open"
                    THEN register(EmptyMap, _socket, {EVENT_READ})
                    ELSE EmptyMap
  /\ ready' = {}
  /\ last' = Event("run", _socket,
                   IF listener = "open" THEN "ok" ELSE "register_raised",
                   None, 0, "none")
  /\ UNCHANGED <<_message_queues, _handler, handlers, verified, sockState,
                 shutdownCalls, closeCalls, listener, listenerCloses,
                 nextSock, aux>>

select_raises_eintr(intr) == intr

\* Whether io_selector.select() raises in run() when a signal interrupts the
\* wait (intr): it does not, the selector returns an empty list or waits
\* again, and run() has no handling of its own.
select_raises(intr) == FALSE

\* e = io_selector.select(): the registered sockets S are reported ready, or
\* none when a signal interrupted the wait (intr).
\* The listening socket is ready only while a client is still to connect.
select(S, intr) ==
  LET raised == select_raises(intr) IN
  /\ pc = "running"
  /\ ready = {}
  /\ S # {}
  /\ S \subseteq DOMAIN io_selector
  /\ _socket \in S => nextSock <= MaxSock
  /\ ready' = IF intr THEN {} ELSE S
  /\ pc' = IF raised THEN "exited" ELSE pc
  /\ io_selector' = IF raised THEN EmptyMap ELSE io_selector
  /\ last' = Event("select", _socket, IF intr THEN "eintr" ELSE "ok",
                   None, 0, "none")
  /\ UNCHANGED <<_message_queues, _handler, handlers,
                 verified, sockState, shutdownCalls, closeCalls, listener,
                 listenerCloses, nextSock, aux>>

\* The branch key.data == EV_ACCEPT of run() and _accept.
\*   res:  what self._socket.accept() does
\*   v:    what verify_request answers
\*   ctor: what the construction of the request handler does
\* An exception of accept() or of the constructor leaves run(); the with
\* statement then closes the selector.
_accept(res, v, ctor) ==
  LET request  == nextSock
      accepted == res = "ok"
      admitted == accepted /\ admit(v)
      built    == admitted /\ ctor = "ok"
      raised   == ~accepted \/ (admitted /\ ctor = "raise")
      sel      == IF admitted
                  THEN register(io_selector, request, {EVENT_READ})
                  ELSE io_selector
  IN
  /\ pc = "running"
  /\ _socket \in ready
  /\ nextSock <= MaxSock
  /\ nextSock' = IF accepted THEN nextSock + 1 ELSE nextSock
  /\ sockState' = IF accepted THEN [sockState EXCEPT ![request] = "open"]
                  ELSE sockState
  /\ verified' = IF accepted
                 THEN [verified EXCEPT ![request] =
                          IF v THEN "true" ELSE "false"]
                 ELSE verified
  /\ _message_queues' = IF admitted THEN new_queue(_message_queues, request)
                        ELSE _message_queues
  /\ _handler' = IF built THEN request ELSE _handler
  /\ handlers' = IF built THEN handlers \cup {request} ELSE handlers
  /\ io_selector' = IF raised THEN EmptyMap ELSE sel
  /\ ready' = IF raised THEN {} ELSE ready \ {_socket}
  /\ pc' = IF raised THEN "exited" ELSE "running"
  /\ last' = Event("accept", IF accepted THEN request ELSE _socket,
                   IF ~accepted THEN "accept_raised"
                   ELSE IF ~admitted THEN "rejected"
                   ELSE IF ~built THEN "handler_raised" ELSE "admitted",
                   None, 0, "none")
  /\ UNCHANGED <<shutdownCalls, closeCalls, listener, listenerCloses, aux>>

_close_request_strict(request, shut) ==
  /\ shutdownCalls' = [shutdownCalls EXCEPT ![request] = @ + 1]
  /\ closeCalls' = IF shut = "raise" THEN closeCalls
                   ELSE [closeCalls EXCEPT ![request] = @ + 1]
  /\ sockState' = IF shut = "raise" THEN sockState
                  ELSE [sockState EXCEPT ![request] = "closed"]

\* _close_request: request.shutdown(SHUT_WR), whose OSError is passed over,
\* then request.close().
\*   shut: what request.shutdown(SHUT_WR) does
_close_request(request, shut) ==
  /\ shutdownCalls' = [shutdownCalls EXCEPT ![request] = @ + 1]
  /\ closeCalls' = [closeCalls EXCEPT ![request] = @ + 1]
  /\ sockState' = [sockState EXCEPT ![request] = "closed"]

\* _cleanup_request on the registry q: unregister, _close_request, del.
\*   shut: what request.shutdown(SHUT_WR) does
_cleanup_request(request, q, shut) ==
  /\ io_selector' = unregister(io_selector, request)
  /\ _close_request(request, shut)
  /\ _message_queues' = del(q, request)
  /\ teardown' = [teardown EXCEPT ![request] = cleanup_order]

\* The branch events & EVENT_READ of run() and _read, with the except
\* OSError: pass of run() around it.
\*   gp:   what request.getpeername() does
\*   rv:   what request.recv(bufsize) does: "oserror", "eof" (b'') or a chunk
\*   shut: what request.shutdown(SHUT_WR) does in the teardown
_read(request, gp, rv, shut) ==
  LET failed == gp = "raise" \/ rv = "oserror"
      data   == ~failed /\ rv \in Chunks
      eof    == ~failed /\ rv = "eof"
  IN
  /\ pc = "running"
  /\ request \in ready
  /\ request # _socket
  /\ EVENT_READ \in io_selector[request]
  /\ rv \in Chunks => TotalReceived(Sockets) < MaxRecv
  /\ received' = IF data THEN [received EXCEPT ![request] = Append(@, rv)]
                 ELSE received
  /\ IF eof
     THEN _cleanup_request(request, _message_queues, shut)
     ELSE /\ io_selector' = IF data
                            THEN modify(io_selector, request, {EVENT_WRITE})
                            ELSE io_selector
          /\ _message_queues' = IF data
                                THEN put(_message_queues, request, rv)
                                ELSE _message_queues
          /\ UNCHANGED <<sockState, shutdownCalls, closeCalls, teardown>>
  /\ ready' = ready \ {request}
  /\ last' = Event("read", request,
                   IF gp = "raise" THEN "getpeername_raised"
                   ELSE IF rv = "oserror" THEN "recv_raised"
                   ELSE IF eof THEN "eof" ELSE "data",
                   None, 0, IF eof THEN shut ELSE "none")
  /\ UNCHANGED <<pc, _handler, handlers, verified, listener, listenerCloses,
                 nextSock, sent, construction, retry>>

\* The branch events & EVENT_WRITE of run() and _write.
\*   gp:   what request.getpeername() does (outside every try: it leaves run)
\*   hres: what self._handler.handle(...) does
\*   sres: what request.sendall(data) does
\*   shut: what request.shutdown(SHUT_WR) does in the teardown
_write(request, gp, hres, sres, shut) ==
  LET queue   == _message_queues[request]
      raised  == gp = "raise"
      empty   == ~raised /\ queue = <<>>
      popped  == ~raised /\ queue # <<>>
      failure == IF ~decodes(Head(queue)) THEN "decode_raised"
                 ELSE IF hres = "raise" THEN "handle_raised"
                 ELSE IF sres = "raise" THEN "send_raised" ELSE "sent"
      failed  == popped /\ failure # "sent"
      sent_ok == popped /\ failure = "sent"
  IN
  /\ pc = "running"
  /\ request \in ready
  /\ request # _socket
  /\ EVENT_READ \notin io_selector[request]
  /\ EVENT_WRITE \in io_selector[request]
  /\ sent' = IF sent_ok
             THEN [sent EXCEPT ![request] =
                      Append(@, handle(decode(Head(queue))))]
             ELSE sent
  /\ IF failed
     THEN _cleanup_request(request, get_nowait(_message_queues, request),
                           shut)
     ELSE /\ _message_queues' = IF sent_ok
                                THEN get_nowait(_message_queues, request)
                                ELSE _message_queues
          /\ io_selector' = IF raised THEN EmptyMap
                            ELSE IF sent_ok
                            THEN modify(io_selector, request, {EVENT_READ})
                            ELSE io_selector
          /\ UNCHANGED <<sockState, shutdownCalls, closeCalls, teardown>>
  /\ ready' = IF raised THEN {} ELSE ready \ {request}
  /\ pc' = IF raised THEN "exited" ELSE "running"
  /\ last' = Event("write", request,
                   IF raised THEN "getpeername_raised"
                   ELSE IF empty THEN "queue_empty" ELSE failure,
                   IF popped THEN _handler ELSE None,
                   IF failed THEN 1 ELSE 0,
                   IF failed THEN shut ELSE "none")
  /\ UNCHANGED <<_handler, handlers, verified, listener, listenerCloses,
                 nextSock, received, construction, retry>>

\* close(): self._socket is never None after construction, so every call
\* calls self._socket.close().
close ==
  /\ pc # "running"
  /\ listenerCloses < MaxClose
  /\ listener' = "closed"
  /\ listenerCloses' = listenerCloses + 1
  /\ last' = Event("close", _socket, "ok", None, 0, "none")
  /\ UNCHANGED <<pc, io_selector, ready, _message_queues, _handler, handlers,
                 verified, sockState, shutdownCalls, closeCalls, nextSock,
                 aux>>

\* A rejected socket is referenced by nothing once _accept has returned: the
\* runtime releases it when it collects the object (at once under reference
\* counting, at some later collection otherwise).  The release is no call of
\* request.shutdown or request.close.
collect(request) ==
  /\ sockState[request] = "open"
  /\ verified[request] = "false"
  /\ sockState' = [sockState EXCEPT ![request] = "closed"]
  /\ last' = Event("collect", request, "ok", None, 0, "none")
  /\ UNCHANGED <<pc, io_selector, ready, _message_queues, _handler, handlers,
                 verified, shutdownCalls, closeCalls, listener,
                 listenerCloses, nextSock, aux>>

Next ==
  \/ run
  \/ \E S \in SUBSET (DOMAIN io_selector), intr \in BOOLEAN : select(S, intr)
  \/ \E res \in {"ok", "oserror"}, v \in BOOLEAN, ctor \in Outcome :
        _accept(res, v, ctor)
  \/ \E request \in Sockets, gp \in Outcome,
        rv \in Chunks \cup {"eof", "oserror"}, shut \in Outcome :
        _read(request, gp, rv, shut)
  \/ \E request \in Sockets, gp \in Outcome, hres \in Outcome,
        sres \in Outcome, shut \in Outcome :
        _write(request, gp, hres, sres, shut)
  \/ close
  \/ \E request \in Sockets : collect(request)

Spec == Init /\ [][Next]_vars

\* The server of echo_tcp_server.py: the handler class is EchoRequestHandler,
\* whose handle never raises.
NextEcho ==
  \/ run
  \/ \E S \in SUBSET (DOMAIN io_selector), intr \in BOOLEAN : select(S, intr)
  \/ \E res \in {"ok", "oserror"}, v \in BOOLEAN, ctor \in Outcome :
        _accept(res, v, ctor)
  \/ \E request \in Sockets, gp \in Outcome,
        rv \in Chunks \cup {"eof", "oserror"}, shut \in Outcome :
        _read(request, gp, rv, shut)
  \/ \E request \in Sockets, gp \in Outcome, sres \in Outcome,
        shut \in Outcome :
        _write(request, gp, "ok", sres, shut)
  \/ close
  \/ \E request \in Sockets : collect(request)

SpecEcho == Init /\ [][NextEcho]_vars

\* io_selector.unregister(fileobj) raises KeyError for a file object that is
\* not registered.
unregister_raises(sel, fileobj) == fileobj \notin DOMAIN sel

\* _cleanup_request called once more, inside run(), for a socket that was
\* cleaned up before.  Its first statement raises, so nothing of it runs.
cleanup_again(request, shut) ==
  LET raised == unregister_raises(io_selector, request) IN
  /\ pc = "running"
  /\ teardown[request] # <<>>
  /\ IF raised
     THEN UNCHANGED <<io_selector, _message_queues, sockState,
                      shutdownCalls, closeCalls, teardown>>
     ELSE _cleanup_request(request, _message_queues, shut)
  /\ last' = Event("cleanup", request,
                   IF raised THEN "unregister_raised" ELSE "ok",
                   None, 0, IF raised THEN "none" ELSE shut)
  /\ UNCHANGED <<pc, ready, _handler, handlers, verified, listener,
                 listenerCloses, nextSock, received, sent, construction,
                 retry>>

NextCleanup ==
  \/ Next
  \/ \E request \in Sockets, shut \in Outcome : cleanup_again(request, shut)

SpecCleanup == Init /\ [][NextCleanup]_vars

---------------------------------------------------------------------------
\* The constructor, up to self._socket.getsockname(): the loop over the
\* candidates of getaddrinfo() where socket.has_ipv6, one AF_INET socket
\* otherwise.  res[i] is what the calls on candidate i do: "socket_fails",
\* "bind_fails", "listen_fails" or "ok".  settimeout and setsockopt are
\* taken not to fail.
CandidateOutcome == {"socket_fails", "bind_fails", "listen_fails", "ok"}

\* The fields of the server, which __init__ sets after the socket is bound.
server == <<pc, io_selector, ready, _message_queues, _handler, handlers,
            verified, sockState, shutdownCalls, closeCalls, listener,
            listenerCloses, nextSock, last, received, sent, teardown>>

\* Candidate lists of 1..n candidates.
CandidateLists(n) ==
  UNION {[1..k -> CandidateOutcome] : k \in 1..n}

InitConstruction ==
  /\ Fields
  /\ retry = NotCalled
  /\ \E ipv6 \in BOOLEAN :
       \E res \in CandidateLists(IF ipv6 THEN MaxCand ELSE 1) :
         construction = [phase |-> "loop", has_ipv6 |-> ipv6, res |-> res,
                         i |-> 1, sock |-> None, open |-> {},
                         tried |-> <<>>, broken |-> FALSE]

\* self._socket.close() of a candidate whose bind or listen failed.
close_candidate(open, i) == open \ {i}

breaks_never(outcome) == FALSE

\* The break of the loop is reached when bind and listen have succeeded.
breaks(outcome) == outcome = "ok"

\* One iteration of the for loop over getaddrinfo().
init_candidate ==
  LET c       == construction
      i       == c.i
      outcome == c.res[i]
      created == outcome # "socket_fails"
      bound   == outcome = "ok"
  IN
  /\ c.phase = "loop"
  /\ c.has_ipv6
  /\ ~c.broken
  /\ i <= Len(c.res)
  /\ construction' =
       [c EXCEPT !.i = i + 1,
                 !.tried = Append(@, i),
                 !.sock = IF bound THEN i ELSE None,
                 !.open = IF ~created THEN @
                          ELSE IF bound THEN @ \cup {i}
                          ELSE close_candidate(@ \cup {i}, i),
                 !.broken = breaks(outcome)]
  /\ UNCHANGED <<server, retry>>

\* After the loop: raise OSError when self._socket is None.
init_finish ==
  LET c == construction IN
  /\ c.phase = "loop"
  /\ c.has_ipv6
  /\ c.broken \/ c.i > Len(c.res)
  /\ construction' =
       [c EXCEPT !.phase = IF c.sock = None THEN "raised" ELSE "done"]
  /\ UNCHANGED <<server, retry>>

\* The branch for a system without IPv6: socket, bind and listen with no
\* try around them, so the first OSError leaves the constructor.
init_ipv4 ==
  LET c       == construction
      outcome == c.res[1]
  IN
  /\ c.phase = "loop"
  /\ ~c.has_ipv6
  /\ construction' =
       [c EXCEPT !.i = 2,
                 !.tried = <<1>>,
                 !.sock = IF outcome = "socket_fails" THEN None ELSE 1,
                 !.open = IF outcome = "socket_fails" THEN @ ELSE @ \cup {1},
                 !.phase = IF outcome = "ok" THEN "done" ELSE "raised"]
  /\ UNCHANGED <<server, retry>>

NextConstruction ==
  \/ init_candidate
  \/ init_finish
  \/ init_ipv4

SpecInit == InitConstruction /\ [][NextConstruction]_vars

---------------------------------------------------------------------------
\* eintr_retry(func, *args).  retry.func[k] is what the k-th call of func
\* does: it returns a value, raises OSError with errno EINTR or with another
\* errno, or raises an exception that is no OSError.  A func whose listed
\* calls all raise EINTR raises EINTR at every later call too.
MaxCalls == 3

Values == {"a", "b"}
EINTR == "EINTR"
OSErrors == {EINTR, "EBADF"}
CallOutcome == Values \cup OSErrors \cup {"ValueError"}

\* What the k-th call of func does.
func(calls, k) == IF k <= Len(calls) THEN calls[k] ELSE EINTR

InitRetry ==
  /\ Fields
  /\ construction = Constructed
  /\ \E calls \in UNION {[1..n -> CallOutcome] : n \in 1..MaxCalls} :
       retry = [func |-> calls, calls |-> 0, state |-> "running",
                result |-> "none"]

swallowed_oserror(errno) == TRUE

\* except OSError as e: the error is swallowed unless e.errno != errno.EINTR.
swallowed(errno) == errno = EINTR

\* One iteration of the while True loop.  retry.calls counts the calls of
\* func, up to the first one past the listed calls.
eintr_retry ==
  LET k   == retry.calls + 1
      out == func(retry.func, k)
  IN
  /\ retry.state = "running"
  /\ retry' =
       IF out \in Values
       THEN [retry EXCEPT !.calls = k, !.state = "returned", !.result = out]
       ELSE IF out \in OSErrors /\ swallowed(out)
       THEN [retry EXCEPT !.calls = IF k > Len(retry.func) THEN @ ELSE k]
       ELSE [retry EXCEPT !.calls = k, !.state = "raised", !.result = out]
  /\ UNCHANGED <<server, construction>>

NextRetry == eintr_retry

SpecRetry == InitRetry /\ [][NextRetry]_vars

\* The interpreter keeps executing the loop: an iteration that can run does.
SpecRetryFair == SpecRetry /\ WF_vars(eintr_retry)

---------------------------------------------------------------------------
\* The client sockets registered with the selector of run().
Registered == DOMAIN io_selector \ {_socket}

\* C1: between event dispatches every registered connection socket has
\* exactly one interest, EVENT_READ or EVENT_WRITE, and its queue is
\* non-empty exactly when the interest is EVENT_WRITE.
C1_InterestMatchesQueue ==
  \A s \in Registered :
    /\ s \in DOMAIN _message_queues
    /\ io_selector[s] \in {{EVENT_READ}, {EVENT_WRITE}}
    /\ (_message_queues[s] # <<>>) <=> (io_selector[s] = {EVENT_WRITE})

\* A response has just been sent on one connection (back to EVENT_READ, queue
\* drained) while another connection waits in EVENT_WRITE with a message.
C1_Witness ==
  /\ last.op = "write" /\ last.res = "sent"
  /\ last.sock \in Registered
  /\ io_selector[last.sock] = {EVENT_READ}
  /\ _message_queues[last.sock] = <<>>
  /\ \E t \in Registered :
       io_selector[t] = {EVENT_WRITE} /\ Len(_message_queues[t]) = 1

\* C2: at all times, also after run() was left through an exception and
\* entered again, the registered connection sockets are exactly the keys of
\* the registry _message_queues.
C2_RegistryEqualsRegistered ==
  Registered = DOMAIN _message_queues

\* C3: the data of a connection is handled by, and its errors are reported
\* to, the handler constructed for that connection.
C3_OwnHandler ==
  (last.op = "write" /\ last.handler # None) => last.handler = last.sock

\* C4: a socket verify_request rejected is closed when the dispatch that
\* accepted it completes.
C4_RejectedClosed ==
  (last.op = "accept" /\ last.res = "rejected")
     => sockState[last.sock] = "closed"

\* C5: only sockets verify_request admitted get a handler, a registry entry
\* or a registration, and a rejection changes nothing of the selector, the
\* registry, the handler or the other sockets.
C5_OnlyAdmitted ==
  /\ [](\A s \in Sockets :
          (s \in handlers \/ s \in DOMAIN _message_queues
             \/ s \in DOMAIN io_selector) => verified[s] = "true")
  /\ [][(last'.op = "accept" /\ last'.res = "rejected")
          => /\ UNCHANGED <<io_selector, _message_queues, _handler, handlers,
                            shutdownCalls, closeCalls>>
             /\ \A s \in Sockets \ {last'.sock} :
                  sockState'[s] = sockState[s]]_vars

\* A socket has just been rejected while another connection is live.
C5_Witness ==
  /\ last.op = "accept" /\ last.res = "rejected"
  /\ verified[last.sock] = "false"
  /\ Registered # {}
  /\ last.sock \notin Registered
  /\ last.sock \notin DOMAIN _message_queues
  /\ last.sock \notin handlers

\* C6: when close() has returned no connection is live: every connection
\* socket is unregistered, closed and out of the registry, and the listening
\* socket is unregistered and closed.
C6_CloseReleasesAll ==
  last.op = "close" =>
    /\ DOMAIN _message_queues = {}
    /\ DOMAIN io_selector = {}
    /\ \A s \in Sockets : sockState[s] # "open"
    /\ listener = "closed"

\* C7: a close() that follows a close() is a no-op: it does not close the
\* listening socket a second time.
C7_SecondCloseNoOp ==
  [][(last.op = "close" /\ last'.op = "close")
       => UNCHANGED <<listener, listenerCloses, io_selector, _message_queues,
                      sockState, closeCalls, shutdownCalls>>]_vars

\* C8: when handle() or sendall() raises in a write dispatch, handle_error
\* is called once, the connection is unregistered, closed and removed from
\* the registry, and run() goes on.
C8_WriteFailureTearsDown ==
  (last.op = "write" /\ last.res \in {"handle_raised", "send_raised"})
     => /\ last.herr = 1
        /\ last.sock \notin DOMAIN io_selector
        /\ last.sock \notin DOMAIN _message_queues
        /\ sockState[last.sock] = "closed"
        /\ closeCalls[last.sock] = 1
        /\ pc = "running"

\* handle() has just raised on one connection while another one is live.
C8_Witness ==
  /\ last.op = "write" /\ last.res = "handle_raised"
  /\ last.herr = 1
  /\ sockState[last.sock] = "closed"
  /\ Registered # {}

\* C9: when recv raises OSError the connection is torn down: unregistered,
\* closed and removed from the registry.
C9_RecvErrorTearsDown ==
  (last.op = "read" /\ last.res = "recv_raised")
     => /\ last.sock \notin DOMAIN io_selector
        /\ last.sock \notin DOMAIN _message_queues
        /\ sockState[last.sock] = "closed"

\* C10: no failure of getpeername, recv, sendall or the handler on one
\* connection ends run(): after every read or write dispatch the loop is
\* still running.
C10_LoopSurvives ==
  last.op \in {"read", "write"} => pc = "running"

\* C11: the dispatch of an event of connection C leaves every other
\* connection D as it was: D's queue, D's registered interest, D's registry
\* entry and whether D is open.
C11_OthersUnchanged ==
  [][last'.op \in {"read", "write"} =>
       \A d \in Sockets \ {last'.sock} :
          /\ (d \in DOMAIN io_selector') <=> (d \in DOMAIN io_selector)
          /\ d \in DOMAIN io_selector => io_selector'[d] = io_selector[d]
          /\ (d \in DOMAIN _message_queues') <=> (d \in DOMAIN _message_queues)
          /\ d \in DOMAIN _message_queues
                => _message_queues'[d] = _message_queues[d]
          /\ sockState'[d] = sockState[d]]_vars

\* p is a prefix of q.
IsPrefix(p, q) ==
  /\ Len(p) <= Len(q)
  /\ \A i \in 1..Len(p) : p[i] = q[i]

\* C12: with the echo handler the data sent on a connection is the chunks
\* received on it, unchanged and in order: never anything else, and all of
\* them once a write dispatch has completed without a socket error.
C12_EchoExact ==
  \A s \in Sockets :
    /\ IsPrefix(sent[s], received[s])
    /\ (/\ last.op = "write"
        /\ last.sock = s
        /\ last.res \notin {"getpeername_raised", "send_raised",
                            "queue_empty"})
          => sent[s] = received[s]

\* C13: when recv returns no bytes the connection is torn down (unregistered,
\* closed, out of the registry: the registry loses that one entry, so it is
\* empty when the connection was its only one), no handler is called and
\* run() goes on.
C13_EofTearsDown ==
  /\ [](last.op = "read" /\ last.res = "eof"
          => /\ last.sock \notin DOMAIN io_selector
             /\ last.sock \notin DOMAIN _message_queues
             /\ sockState[last.sock] = "closed"
             /\ last.handler = None
             /\ last.herr = 0
             /\ sent[last.sock] = received[last.sock]
             /\ pc = "running")
  /\ [][last'.op = "read" /\ last'.res = "eof"
          => DOMAIN _message_queues' = DOMAIN _message_queues \ {last'.sock}
     ]_vars

\* A client that sent nothing has disconnected and the registry is empty.
C13_Witness ==
  /\ last.op = "read" /\ last.res = "eof"
  /\ received[last.sock] = <<>>
  /\ sockState[last.sock] = "closed"
  /\ DOMAIN _message_queues = {}

\* Candidate j is one whose socket creation, bind and listen all succeed.
Succeeds(j) == construction.res[j] = "ok"

\* C14: the constructor tries the candidates in order; the listening socket
\* is the first candidate whose socket, bind and listen all succeed and no
\* later one is tried; it raises exactly when every candidate fails, and
\* then no listening socket exists.
C14_FirstCandidateWins ==
  LET c == construction
      n == Len(c.res)
  IN
  /\ c.phase = "done"
       => /\ c.sock \in 1..n
          /\ Succeeds(c.sock)
          /\ \A j \in 1..(c.sock - 1) : ~Succeeds(j)
          /\ c.tried = [k \in 1..c.sock |-> k]
  /\ c.phase = "raised"
       => /\ \A j \in 1..n : ~Succeeds(j)
          /\ \A j \in c.open : ~Succeeds(j)
  /\ (c.phase \in {"done", "raised"} /\ \A j \in 1..n : ~Succeeds(j))
       => c.phase = "raised"

\* The first candidate failed, the second one is the listening socket and
\* the third one was never tried.
C14_Witness ==
  /\ construction.phase = "done"
  /\ Len(construction.res) = 3
  /\ construction.sock = 2
  /\ construction.tried = <<1, 2>>
  /\ construction.res[3] = "ok"

C18_DuplicateCleanupNoOp ==
  last.op = "cleanup" => last.res = "ok"

\* C19: a received chunk is in the end answered or its connection torn
\* down.  Once run() has been left its selector is closed for good, and a
\* later run() starts a new one with the listening socket alone, so the
\* claim requires that no connection holds an unsent chunk then.
C19_PendingChunkServed ==
  pc = "exited" =>
    \A s \in DOMAIN _message_queues : _message_queues[s] = <<>>

\* C20: when the construction of the request handler raises, the server
\* handles it and cleans the accepted socket up: one shutdown, one close,
\* not registered and not in the registry.
C20_HandlerErrorCleansUp ==
  (last.op = "accept" /\ last.res = "handler_raised")
     => /\ pc = "running"
        /\ shutdownCalls[last.sock] = 1
        /\ closeCalls[last.sock] = 1
        /\ sockState[last.sock] = "closed"
        /\ last.sock \notin DOMAIN io_selector
        /\ last.sock \notin DOMAIN _message_queues

\* C22: a queue never holds more than one message: a second chunk is never
\* read on a connection before the response to the first one was sent, and
\* no write dispatch finds its queue empty.
C22_OneMessage ==
  /\ \A s \in DOMAIN _message_queues : Len(_message_queues[s]) <= 1
  /\ \A s \in Sockets : Len(received[s]) <= Len(sent[s]) + 1
  /\ \A s \in Registered :
       io_selector[s] = {EVENT_WRITE} => _message_queues[s] # <<>>
  /\ last.res # "queue_empty"

\* A connection has read its second chunk after the first one was answered.
C22_Witness ==
  \E s \in Registered :
    /\ Len(received[s]) = 2
    /\ Len(sent[s]) = 1
    /\ Len(_message_queues[s]) = 1
    /\ io_selector[s] = {EVENT_WRITE}

\* C23: a candidate whose bind or listen failed is closed before the next
\* one is tried, and when the constructor ends the only socket of it that
\* is open is the listening socket: none when it raises.
C23_CandidatesClosed ==
  LET c == construction IN
  /\ c.open \subseteq {c.sock}
  /\ c.phase = "done" => c.open = {c.sock}
  /\ c.phase = "raised" => c.open = {}

\* The first call of func that does not raise EINTR, 0 when there is none.
FirstOther(calls) ==
  LET others == {k \in 1..Len(calls) : calls[k] # EINTR}
  IN IF others = {} THEN 0
     ELSE CHOOSE k \in others : \A j \in others : k <= j

Terminated == retry.state \in {"returned", "raised"}

\* C21: eintr_retry calls func again after every call that raises EINTR;
\* it returns the value of the first call that does not raise, and lets any
\* other error out at the call that raised it; it ends exactly when some
\* call of func does not raise EINTR.
C21_RetriesOnlyEintr ==
  /\ [](LET r == retry
            first == FirstOther(r.func)
        IN /\ r.state = "running" =>
                /\ \A j \in 1..r.calls : func(r.func, j) = EINTR
                /\ first # 0 => r.calls < first
           /\ r.state = "returned" =>
                /\ r.calls = first
                /\ r.func[first] \in Values
                /\ r.result = r.func[first]
           /\ r.state = "raised" =>
                /\ r.calls = first
                /\ r.func[first] \notin Values
                /\ r.result = r.func[first]
           /\ Terminated => first # 0)
  /\ [][retry.state = "running" /\ func(retry.func, retry.calls + 1) = EINTR
          => retry'.state = "running"]_vars
  /\ (FirstOther(retry.func) # 0 ~> Terminated)

\* The third call returned after two calls that raised EINTR.
C21_Witness ==
  /\ retry.state = "returned"
  /\ retry.calls = 3
  /\ retry.func[1] = EINTR
  /\ retry.func[2] = EINTR
  /\ retry.result = retry.func[3]

====
